---- MODULE Spec2Model ----
(***************************************************************************)
(* pandora_search_catalog (agent.py): the catalog search tool of the       *)
(* content discovery agent.  One invocation validates content_type, builds *)
(* the GraphQL query document from an f-string template, flattens it,      *)
(* obtains a bearer token, issues one httpx.post and returns the decoded   *)
(* body or an error object.                                                *)
(*                                                                         *)
(* Text is modelled as a sequence of tokens.  Caller-supplied text (query, *)
(* content_type) is one token per character; the text of the template is   *)
(* one token per run of spaces, per line break and per line body (a line   *)
(* body holds no line break, no double quote and no backslash, and has no  *)
(* space at either end), so replace('\n', ' ') and strip() act on tokens   *)
(* exactly as they act on characters.                                      *)
(***************************************************************************)
EXTENDS Integers, Sequences, FiniteSets, TLC

VARIABLES
    CONTENT_TYPE_MAP,  \* module-level dict (agent.py:17-23)
    pc,                \* position of the current invocation
    query,             \* argument query
    content_type,      \* argument content_type
    pandora_type_id,   \* local, agent.py:43
    graphql_query,     \* local, agent.py:49-96
    data,              \* local, agent.py:99-103
    headers,           \* local, agent.py:105-108
    sent,              \* requests put on the network by this invocation
    response,          \* local 'response' (bound only when httpx.post returned)
    result,            \* value returned to the caller
    raised,            \* exception that left the function, if any
    previous           \* how the invocation before this one ended

vars == <<CONTENT_TYPE_MAP, pc, query, content_type, pandora_type_id,
          graphql_query, data, headers, sent, response, result, raised, previous>>

----------------------------------------------------------------------------
(* Bounds and input sets *)

MaxQueryLen == 2

\* Characters a query is drawn from: a letter, the double quote, the
\* backslash, the line break and the space.
QueryChars == {"a", "\"", "\\", "\n", " "}

RECURSIVE SeqsUpTo(_, _)
SeqsUpTo(S, n) ==
    IF n = 0 THEN {<<>>}
    ELSE LET shorter == SeqsUpTo(S, n - 1)
         IN  shorter \cup {Append(s, c) : s \in shorter, c \in S}

Queries == SeqsUpTo(QueryChars, MaxQueryLen)

ARTIST  == <<"A", "R", "T", "I", "S", "T">>
STATION == <<"S", "T", "A", "T", "I", "O", "N">>
ALBUM   == <<"A", "L", "B", "U", "M">>
TRACK   == <<"T", "R", "A", "C", "K">>
PODCAST == <<"P", "O", "D", "C", "A", "S", "T">>

\* Letter casings of the five labels.
ValidContentTypes ==
    { <<"A", "R", "T", "I", "S", "T">>,
      <<"S", "T", "A", "T", "I", "O", "N">>,
      <<"A", "L", "B", "U", "M">>,
      <<"T", "R", "A", "C", "K">>,
      <<"P", "O", "D", "C", "A", "S", "T">>,
      <<"a", "r", "t", "i", "s", "t">>,
      <<"s", "T", "a", "T", "i", "O", "n">>,
      <<"P", "o", "d", "C", "a", "s", "t">> }

\* "PLAYLIST", "", "artist " (trailing space), "ST".
InvalidContentTypes ==
    { <<"P", "L", "A", "Y", "L", "I", "S", "T">>,
      <<>>,
      <<"a", "r", "t", "i", "s", "t", " ">>,
      <<"S", "T">> }

ContentTypes == ValidContentTypes \cup InvalidContentTypes

None == "None"
NoResult == [pending |-> TRUE]
NoData == [pending |-> TRUE]

----------------------------------------------------------------------------
(* str.upper on the characters that occur *)

LowerLetters == <<"a", "b", "c", "d", "e", "f", "g", "h", "i", "j", "k", "l", "m", "n", "o", "p", "q", "r", "s", "t", "u", "v", "w", "x", "y", "z">>
UpperLetters == <<"A", "B", "C", "D", "E", "F", "G", "H", "I", "J", "K", "L", "M", "N", "O", "P", "Q", "R", "S", "T", "U", "V", "W", "X", "Y", "Z">>

UpperChar(c) ==
    IF \E i \in 1..Len(LowerLetters) : LowerLetters[i] = c
    THEN UpperLetters[CHOOSE i \in 1..Len(LowerLetters) : LowerLetters[i] = c]
    ELSE c

RECURSIVE Upper(_)
Upper(s) == IF s = <<>> THEN <<>> ELSE <<UpperChar(Head(s))>> \o Upper(Tail(s))

----------------------------------------------------------------------------
(* CONTENT_TYPE_MAP and dict.get *)

\* Mutant: STATION mapped to ST (a saved station) instead of SF.
ContentTypeMapInit_ST ==
    [k \in {ARTIST, STATION, ALBUM, TRACK, PODCAST} |->
        CASE k = ARTIST  -> "AR"
          [] k = STATION -> "ST"
          [] k = ALBUM   -> "AL"
          [] k = TRACK   -> "TR"
          [] k = PODCAST -> "PC"]

ContentTypeMapInit ==
    [k \in {ARTIST, STATION, ALBUM, TRACK, PODCAST} |->
        CASE k = ARTIST  -> "AR"
          [] k = STATION -> "SF"
          [] k = ALBUM   -> "AL"
          [] k = TRACK   -> "TR"
          [] k = PODCAST -> "PC"]

\* dict.get(key): the value, or None when the key is absent.
DictGet(m, key) == IF key \in DOMAIN m THEN m[key] ELSE None

\* Mutant: dict.pop in place of dict.get, the key is removed.
DictAfterPop(m, key) == [k \in DOMAIN m \ {key} |-> m[k]]

\* dict.get leaves the dict as it was.
DictAfterGet(m, key) == m

\* Python truthiness of a str-or-None value ('if not pandora_type_id').
Truthy(v) == v # None /\ v # ""

----------------------------------------------------------------------------
(* The f-string template of the query document, agent.py:49-96 *)

TemplateHead == <<"\n", "        ", "{", "\n", "            ", "search(types: [">>
TemplateMid  == <<"], query: ", "\"">>
TemplateTail ==
    <<"\"", ", pagination: {limit: 20}) {", "\n",
       "                ", "items {", "\n",
       "                    ", "id", "\n",
       "                    ", "... on Station {", "\n",
       "                        ", "name", "\n",
       "                        ", "art {", "\n",
       "                            ", "url(size: WIDTH_90)", "\n",
       "                        ", "}", "\n",
       "                        ", "description", "\n",
       "                    ", "}", "\n",
       "                    ", "... on StationFactory {", "\n",
       "                        ", "name", "\n",
       "                        ", "art {", "\n",
       "                            ", "url(size: WIDTH_90)", "\n",
       "                        ", "}", "\n",
       "                        ", "exampleArtists { name }", "\n",
       "                        ", "description", "\n",
       "                    ", "}", "\n",
       "                    ", "... on Track {", "\n",
       "                        ", "name", "\n",
       "                        ", "artist { name }", "\n",
       "                        ", "album { name }", "\n",
       "                        ", "url", "\n",
       "                    ", "}", "\n",
       "                    ", "... on Podcast {", "\n",
       "                        ", "name", "\n",
       "                        ", "publisherName", "\n",
       "                        ", "url", "\n",
       "                    ", "}", "\n",
       "                    ", "... on Album {", "\n",
       "                        ", "name", "\n",
       "                        ", "artist { name }", "\n",
       "                        ", "releaseDate", "\n",
       "                        ", "tracks { name }", "\n",
       "                        ", "trackCount", "\n",
       "                        ", "url", "\n",
       "                    ", "}", "\n",
       "                    ", "... on Artist {", "\n",
       "                        ", "name", "\n",
       "                        ", "sortableName", "\n",
       "                        ", "url", "\n",
       "                    ", "}", "\n",
       "                ", "}", "\n",
       "            ", "}", "\n",
       "        ", "}", "\n",
       "    ">>

GraphqlQuery(type_id, q) ==
    TemplateHead \o <<type_id>> \o TemplateMid \o q \o TemplateTail

----------------------------------------------------------------------------
(* graphql_query.replace('\n', ' ').strip(), agent.py:102 *)

\* Tokens str.strip() removes: the whitespace characters and the template's
\* runs of spaces.
IsSpace(t) ==
    t \in {" ", "\n", "\t", "\r",
           "    ", "        ", "            ", "                ",
           "                    ", "                        ",
           "                            "}

\* str.replace('\n', ' '): every line break becomes one space.
ReplaceNewlines(s) ==
    SubSeq([i \in 1..Len(s) |-> IF s[i] = "\n" THEN " " ELSE s[i]], 1, Len(s))

\* str.strip(): drops the whitespace before the first and after the last
\* token that is not whitespace (everything, when there is none).
Strip(s) ==
    IF \A i \in 1..Len(s) : IsSpace(s[i]) THEN <<>>
    ELSE SubSeq(s,
            CHOOSE i \in 1..Len(s) :
                ~IsSpace(s[i]) /\ \A j \in 1..(i - 1) : IsSpace(s[j]),
            CHOOSE i \in 1..Len(s) :
                ~IsSpace(s[i]) /\ \A j \in (i + 1)..Len(s) : IsSpace(s[j]))

\* Mutant: strip() without the replace.
Flatten_StripOnly(doc) == Strip(doc)

Flatten(doc) == Strip(ReplaceNewlines(doc))

\* The payload dictionary, agent.py:99-103.
Payload(doc) ==
    [operationName |-> None, variables |-> <<>>, query |-> Flatten(doc)]

----------------------------------------------------------------------------
(* The token provider and the request, agent.py:5-9, 105-113 *)

AccessToken == "<replace with test token>"

Headers(token) ==
    [Authorization |-> <<"Bearer ", token>>, ContentType |-> "application/json"]

NoHeaders == [pending |-> TRUE]

PANDORA_URL == "https://ce.pandora.com/api/v1/graphql/graphql"

Request(h, d) == [url |-> PANDORA_URL, headers |-> h, json |-> d, timeout |-> 10]

----------------------------------------------------------------------------
(* What httpx.post can do, and the handling of its outcome, agent.py:112-118 *)

\* httpx.post raised before a response was bound: timeout, connection failure.
TransportFailures == {"ReadTimeout", "ConnectError"}

Statuses == {200, 302, 500}

BodyItems == "{\"data\":{\"search\":{\"items\":[{\"id\":\"1\",\"name\":\"Test Artist\"}]}}}"
BodyServerError == "{\"message\":\"server error\"}"
BodyHtml == "<html>Bad Gateway</html>"

Bodies == {BodyItems, BodyServerError, BodyHtml}

Unbound == [bound |-> FALSE]
BoundResponse(status, body) == [bound |-> TRUE, status_code |-> status, text |-> body]

\* Mutant: raise_for_status raises on 4xx and 5xx only.
IsSuccess_Below400(status) == status < 400

\* Response.raise_for_status(): passes on 2xx only.
IsSuccess(status) == 200 <= status /\ status <= 299

StatusCause(status) ==
    CASE status \div 100 = 1 -> "Informational response"
      [] status \div 100 = 3 -> "Redirect response"
      [] status \div 100 = 4 -> "Client error"
      [] OTHER               -> "Server error"

\* Response.json(): the decoded structure, or a decode failure.
JsonDecode(body) ==
    CASE body = BodyItems ->
            [ok |-> TRUE,
             value |-> [data |-> [search |-> [items |->
                          <<[id |-> "1", name |-> "Test Artist"]>>]]]]
      [] body = BodyServerError ->
            [ok |-> TRUE, value |-> [message |-> "server error"]]
      [] OTHER -> [ok |-> FALSE]

\* Mutant: response_text is always None.
ResponseText_None(resp) == None

\* response.text if 'response' in locals() else None
ResponseText(resp) == IF resp.bound THEN resp.text ELSE None

\* The dict built by the except clause, agent.py:118.
ErrorObject(cause, resp) ==
    [error |-> <<"Pandora API call failed: ", cause>>,
     response_text |-> ResponseText(resp)]

\* Mutant: echoes the upper-cased content type instead of the one passed.
InvalidError_Upper(ct) == [error |-> <<"Invalid content_type: ", Upper(ct), ".">>]

\* The dict returned for an unknown content type, agent.py:46.
InvalidError(ct) == [error |-> <<"Invalid content_type: ", ct, ".">>]

\* The try block once httpx.post has returned resp, agent.py:114-118.
HandleResponse(resp) ==
    IF ~IsSuccess(resp.status_code)
    THEN ErrorObject(StatusCause(resp.status_code), resp)
    ELSE IF ~JsonDecode(resp.text).ok
         THEN ErrorObject("JSONDecodeError", resp)
         ELSE JsonDecode(resp.text).value

----------------------------------------------------------------------------
(* The state machine *)

Init ==
    /\ CONTENT_TYPE_MAP = ContentTypeMapInit
    /\ pc = "idle"
    /\ query = <<>>
    /\ content_type = <<>>
    /\ pandora_type_id = None
    /\ graphql_query = <<>>
    /\ data = NoData
    /\ headers = NoHeaders
    /\ sent = <<>>
    /\ response = Unbound
    /\ result = NoResult
    /\ raised = None
    /\ previous = "none"

\* agent.py:43-46 with an unknown content type: the early return.
CallInvalid(q, ct) ==
    /\ pc = "idle"
    /\ ~Truthy(DictGet(CONTENT_TYPE_MAP, Upper(ct)))
    /\ query' = q
    /\ content_type' = ct
    /\ pandora_type_id' = DictGet(CONTENT_TYPE_MAP, Upper(ct))
    /\ CONTENT_TYPE_MAP' = DictAfterGet(CONTENT_TYPE_MAP, Upper(ct))
    /\ result' = InvalidError(ct)
    /\ pc' = "returned"
    /\ UNCHANGED <<graphql_query, data, headers, sent, response, raised, previous>>

\* agent.py:43-103 with a known content type: the document and the payload.
CallValid(q, ct) ==
    /\ pc = "idle"
    /\ Truthy(DictGet(CONTENT_TYPE_MAP, Upper(ct)))
    /\ query' = q
    /\ content_type' = ct
    /\ pandora_type_id' = DictGet(CONTENT_TYPE_MAP, Upper(ct))
    /\ CONTENT_TYPE_MAP' = DictAfterGet(CONTENT_TYPE_MAP, Upper(ct))
    /\ graphql_query' = GraphqlQuery(pandora_type_id', q)
    /\ data' = Payload(graphql_query')
    /\ pc' = "headers"
    /\ UNCHANGED <<headers, sent, response, result, raised, previous>>

\* get_pandora_access_token is a placeholder that returns a static test
\* token; the retrieval it stands for (an OAuth flow, agent.py:5-8) is a call
\* to a collaborator, which returns a token or raises.

\* agent.py:105-108, the token provider returned.
GetTokenReturns ==
    /\ pc = "headers"
    /\ headers' = Headers(AccessToken)
    /\ pc' = "post"
    /\ UNCHANGED <<CONTENT_TYPE_MAP, query, content_type, pandora_type_id,
                   graphql_query, data, sent, response, result, raised, previous>>

\* agent.py:105-108, the token provider raised: the dict display is outside
\* the try statement, so the exception leaves the function.
GetTokenRaises ==
    /\ pc = "headers"
    /\ raised' = "TokenError"
    /\ pc' = "raised"
    /\ UNCHANGED <<CONTENT_TYPE_MAP, query, content_type, pandora_type_id,
                   graphql_query, data, headers, sent, response, result, previous>>

\* agent.py:113, 116-118: httpx.post raised, 'response' was never bound.
PostFails(cause) ==
    /\ pc = "post"
    /\ sent' = Append(sent, Request(headers, data))
    /\ result' = ErrorObject(cause, response)
    /\ pc' = "returned"
    /\ UNCHANGED <<CONTENT_TYPE_MAP, query, content_type, pandora_type_id,
                   graphql_query, data, headers, response, raised, previous>>

\* agent.py:113-118: httpx.post returned a response.
PostResponds(status, body) ==
    /\ pc = "post"
    /\ sent' = Append(sent, Request(headers, data))
    /\ response' = BoundResponse(status, body)
    /\ result' = HandleResponse(response')
    /\ pc' = "returned"
    /\ UNCHANGED <<CONTENT_TYPE_MAP, query, content_type, pandora_type_id,
                   graphql_query, data, headers, raised, previous>>

\* How the current invocation ended, as its caller sees it.
Outcome ==
    CASE pc = "raised"                     -> "exception"
      [] pandora_type_id = None            -> "invalid"
      [] "response_text" \in DOMAIN result -> "failure"
      [] OTHER                             -> "value"

\* The invocation is over (a value or an exception reached the caller); its
\* frame is gone and the next invocation can start.
Finish ==
    /\ pc \in {"returned", "raised"}
    /\ pc' = "idle"
    /\ query' = <<>>
    /\ content_type' = <<>>
    /\ pandora_type_id' = None
    /\ graphql_query' = <<>>
    /\ data' = NoData
    /\ headers' = NoHeaders
    /\ sent' = <<>>
    /\ response' = Unbound
    /\ result' = NoResult
    /\ raised' = None
    /\ previous' = Outcome
    /\ UNCHANGED CONTENT_TYPE_MAP

Next ==
    \/ \E q \in Queries, ct \in ContentTypes : CallInvalid(q, ct)
    \/ \E q \in Queries, ct \in ContentTypes : CallValid(q, ct)
    \/ GetTokenReturns
    \/ GetTokenRaises
    \/ \E cause \in TransportFailures : PostFails(cause)
    \/ \E status \in Statuses, body \in Bodies : PostResponds(status, body)
    \/ Finish

Spec == Init /\ [][Next]_vars

----------------------------------------------------------------------------
(* Reading an outgoing document the way the remote GraphQL service does *)

Keys == {ARTIST, STATION, ALBUM, TRACK, PODCAST}

\* The provider code documented for a label.
DocumentedCode(label) ==
    CASE label = ARTIST  -> "AR"
      [] label = STATION -> "SF"
      [] label = ALBUM   -> "AL"
      [] label = TRACK   -> "TR"
      [] label = PODCAST -> "PC"

\* The first double quote of the document opens the string literal of the
\* query argument (nothing before it in the template holds a quote).
OpenQuote(d) ==
    CHOOSE i \in 1..Len(d) : d[i] = "\"" /\ \A j \in 1..(i - 1) : d[j] # "\""

\* Number of backslashes that directly precede position j inside the literal.
BackslashRun(d, i, j) ==
    LET runs == {k \in 0..(j - i - 1) : \A l \in 1..k : d[j - l] = "\\"}
    IN  CHOOSE k \in runs : \A k2 \in runs : k2 <= k

\* Positions of the quotes that close the literal opened at i: a quote
\* after an even number of backslashes.
Closers(d, i) ==
    {j \in (i + 1)..Len(d) : d[j] = "\"" /\ BackslashRun(d, i, j) % 2 = 0}

CloseQuote(d, i) == CHOOSE j \in Closers(d, i) : \A j2 \in Closers(d, i) : j <= j2

\* The document with the content of the query string literal cut out.
Structure(d) ==
    LET i == OpenQuote(d)
    IN  IF Closers(d, i) = {}
        THEN SubSeq(d, 1, i) \o <<"<unterminated string>">>
        ELSE SubSeq(d, 1, i) \o <<"<string>">> \o SubSeq(d, CloseQuote(d, i), Len(d))

\* Escape sequences of a string literal: \" and \\ stand for the quote and
\* the backslash; no other escape can be written with QueryChars.
RECURSIVE Unescape(_)
Unescape(raw) ==
    IF raw = <<>> THEN <<>>
    ELSE IF Head(raw) # "\\" THEN <<Head(raw)>> \o Unescape(Tail(raw))
    ELSE IF Len(raw) >= 2 /\ raw[2] \in {"\"", "\\"}
         THEN <<raw[2]>> \o Unescape(Tail(Tail(raw)))
         ELSE <<"<invalid escape>">>

\* The value the service reads for the query argument.
QueryArgument(d) ==
    LET i == OpenQuote(d)
    IN  IF Closers(d, i) = {}
        THEN <<"<unterminated string>">>
        ELSE Unescape(SubSeq(d, i + 1, CloseQuote(d, i) - 1))

\* The structure of the template for a provider code, whatever the query.
TemplateStructure(type_id) == Structure(Flatten(GraphqlQuery(type_id, <<"a">>)))

\* The types list of a flattened document: what stands between
\* 'search(types: [' and '], query: '.
TypesList(d) ==
    LET open  == CHOOSE i \in 1..Len(d) : d[i] = "search(types: ["
        close == CHOOSE i \in 1..Len(d) : d[i] = "], query: "
    IN  SubSeq(d, open + 1, close - 1)

IsErrorObject(r) == "error" \in DOMAIN r

----------------------------------------------------------------------------
(* Claims *)

\* C1: a content type whose upper-cased form is not one of the five labels
\* is answered with exactly {error: "Invalid content_type: <as passed>."},
\* and no request is put on the network.
C1_InvalidContentType ==
    (pc \in {"headers", "post", "returned", "raised"} /\ Upper(content_type) \notin Keys)
        => /\ pc = "returned"
           /\ result = [error |-> <<"Invalid content_type: ", content_type, ".">>]
           /\ sent = <<>>

C1_Witness ==
    /\ pc = "returned"
    /\ content_type = <<"a", "r", "t", "i", "s", "t", " ">>
    /\ result = [error |-> <<"Invalid content_type: ",
                             <<"a", "r", "t", "i", "s", "t", " ">>, ".">>]
    /\ sent = <<>>

\* C2: an invocation with a valid content type that has ended issued exactly
\* one request, whatever the request's outcome and whatever the token
\* provider did; never more than one.
C2_ExactlyOneRequest ==
    /\ Len(sent) <= 1
    /\ (pc \in {"returned", "raised"} /\ Upper(content_type) \in Keys)
          => Len(sent) = 1

\* C3: no failure leaves the function as an exception; every failure is
\* returned as an object of the shape {error, response_text}.
C3_NothingPropagates ==
    /\ pc # "raised"
    /\ raised = None
    /\ (pc = "returned" /\ Upper(content_type) \in Keys /\ IsErrorObject(result))
          => DOMAIN result = {"error", "response_text"}

C5_ErrorObject ==
    (pc = "returned" /\ Len(sent) = 1 /\ IsErrorObject(result))
        => /\ Len(result.error) = 2
           /\ result.error[1] = "Pandora API call failed: "
           /\ response.bound => result.response_text = response.text
           /\ ~response.bound => result.response_text = None

C5_Witness ==
    /\ pc = "returned"
    /\ response.bound
    /\ response.status_code = 500
    /\ response.text = "{\"message\":\"server error\"}"
    /\ IsErrorObject(result)
    /\ result.response_text = "{\"message\":\"server error\"}"

\* C6: a 2xx response whose body decodes as JSON is returned as exactly the
\* decoded structure, after a single request; a non-2xx response never
\* yields a decoded body.
C6_DecodedBodyVerbatim ==
    (pc = "returned" /\ response.bound)
        => /\ (response.status_code \in 200..299 /\ JsonDecode(response.text).ok)
                 => (result = JsonDecode(response.text).value /\ Len(sent) = 1)
           /\ response.status_code \notin 200..299 => IsErrorObject(result)

C6_Witness ==
    /\ pc = "returned"
    /\ response.bound
    /\ response.status_code = 200
    /\ response.text = BodyItems
    /\ result = [data |-> [search |-> [items |->
                    <<[id |-> "1", name |-> "Test Artist"]>>]]]

\* C7: whatever the query text, the document that is sent differs from the
\* template only inside the string literal of the query argument.
C7_NoStructureInjection ==
    \A n \in 1..Len(sent) :
        Structure(sent[n].json.query) = TemplateStructure(pandora_type_id)

\* C8: the document that is sent carries the caller's query text, character
\* for character, as the value of the query argument.
C8_QueryTextVerbatim ==
    \A n \in 1..Len(sent) : QueryArgument(sent[n].json.query) = query

\* C9: the query string of the envelope holds no line break and has no
\* whitespace at either end, whatever the query text.
C9_FlattenedAndTrimmed ==
    data # NoData
        => /\ Len(data.query) > 0
           /\ \A i \in 1..Len(data.query) : data.query[i] # "\n"
           /\ ~IsSpace(data.query[1])
           /\ ~IsSpace(data.query[Len(data.query)])

C9_Witness ==
    /\ Len(sent) = 1
    /\ \E i \in 1..Len(query) : query[i] = "\n"
    /\ sent[1].json.query = data.query

====
